---- MODULE Spec2Model ----
(***************************************************************************)
(* A state-machine model of src/libcrun/criu.c: the CRIU checkpoint and    *)
(* restore entry points of crun.  One call runs at a time; every system    *)
(* call and every engine (libcriu) call of the two functions is a step     *)
(* whose failure is chosen by the environment.                             *)
(*                                                                         *)
(* Strings that the code inspects byte by byte (the descriptor ledger,     *)
(* mount destinations) are sequences of one-character strings.  An         *)
(* optional C pointer is the empty sequence (NULL) or a one-element        *)
(* sequence holding the value.                                             *)
(***************************************************************************)
EXTENDS Integers, Sequences, FiniteSets, TLC

VARIABLES
    pc,        \* position of the running call ("idle" between calls)
    op,        \* "none", "checkpoint" or "restore"
    calls,     \* number of calls started so far
    def,       \* container->container_def
    opts,      \* cr_options and the caller's effective uid
    status,    \* libcrun_container_status_t: pid, external_descriptors
    fs,        \* the parts of the filesystem the two functions touch, and
               \* whether an umount or rmdir of bundle/criu-root ever failed
    eng,       \* the options handed to libcriu in this call
    trace,     \* system and engine calls attempted by this call, in order
    ret,       \* the local `ret`
    errs,      \* the errors made by crun_make_error in this call, in order
    inherit_fd, \* the local `inherit_fd` of restore
    pid_at_call \* status->pid as the running call found it

vars ==
    <<pc, op, calls, def, opts, status, fs, eng, trace, ret, errs, inherit_fd,
      pid_at_call>>

\* *err as the caller finds it: a later crun_make_error overwrites an earlier one
err == IF errs = <<>> THEN "" ELSE errs[Len(errs)]

----------------------------------------------------------------------------
(* Bounds *)

\* calls made one after another on the same bundle and image directory
MaxCalls == 3

----------------------------------------------------------------------------
(* Optional values and byte strings *)

NULL == <<>>
Some(x) == <<x>>
IsNull(p) == p = <<>>
Deref(p) == p[1]

Min(a, b) == IF a < b THEN a ELSE b

\* strncmp (a, b, n) == 0
StrNEq(a, b, n) ==
    LET la == Min(Len(a), n)
        lb == Min(Len(b), n)
    IN  la = lb /\ SubSeq(a, 1, la) = SubSeq(b, 1, lb)

PipePrefix == <<"p", "i", "p", "e", ":">>

DevNull == <<"/", "d", "e", "v", "/", "n", "u", "l", "l">>

ExtRootNetNS == <<"e", "x", "t", "R", "o", "o", "t", "N", "e", "t", "N", "S">>

----------------------------------------------------------------------------
(* yajl_tree_parse on the subset of JSON the ledger can hold: strings      *)
(* without escapes, unsigned integers and arrays, no white space.          *)

Digits == {"0", "1", "2", "3", "4", "5", "6", "7", "8", "9"}

JString(s) == [t |-> "string", s |-> s, a |-> <<>>]
JNumber(s) == [t |-> "number", s |-> s, a |-> <<>>]
JArray(a) == [t |-> "array", s |-> <<>>, a |-> a]

ParseFail == [ok |-> FALSE, val |-> JArray(<<>>), pos |-> 0]
ParseOk(v, p) == [ok |-> TRUE, val |-> v, pos |-> p]

\* index of the first `"` at or after p, 0 when there is none
RECURSIVE ClosingQuote(_, _)
ClosingQuote(s, p) ==
    IF p > Len(s) THEN 0
    ELSE IF s[p] = "\"" THEN p
    ELSE ClosingQuote(s, p + 1)

\* index after the last digit of the run of digits starting at p
RECURSIVE DigitsEnd(_, _)
DigitsEnd(s, p) ==
    IF p <= Len(s) /\ s[p] \in Digits THEN DigitsEnd(s, p + 1) ELSE p

RECURSIVE ParseValue(_, _)
RECURSIVE ParseElements(_, _, _)

ParseValue(s, p) ==
    IF p > Len(s) THEN ParseFail
    ELSE IF s[p] = "\"" THEN
        LET q == ClosingQuote(s, p + 1)
        IN  IF q = 0 THEN ParseFail
            ELSE ParseOk(JString(SubSeq(s, p + 1, q - 1)), q + 1)
    ELSE IF s[p] \in Digits THEN
        LET q == DigitsEnd(s, p)
        IN  ParseOk(JNumber(SubSeq(s, p, q - 1)), q)
    ELSE IF s[p] = "[" THEN
        IF p + 1 <= Len(s) /\ s[p + 1] = "]"
        THEN ParseOk(JArray(<<>>), p + 2)
        ELSE ParseElements(s, p + 1, <<>>)
    ELSE ParseFail

ParseElements(s, p, acc) ==
    LET r == ParseValue(s, p)
    IN  IF ~r.ok \/ r.pos > Len(s) THEN ParseFail
        ELSE IF s[r.pos] = "," THEN ParseElements(s, r.pos + 1, Append(acc, r.val))
        ELSE IF s[r.pos] = "]" THEN ParseOk(JArray(Append(acc, r.val)), r.pos + 1)
        ELSE ParseFail

\* NULL on a parse error, on empty input and on trailing garbage
yajl_tree_parse(buffer) ==
    LET r == ParseValue(buffer, 1)
    IN  IF r.ok /\ r.pos = Len(buffer) + 1 THEN Some(r.val) ELSE NULL

YAJL_IS_ARRAY(v) == v.t = "array"
YAJL_IS_STRING(v) == v.t = "string"

----------------------------------------------------------------------------
(* The descriptor ledger *)

\* the loop of lines 363-379 comparing one byte too few
RECURSIVE LedgerInheritFdsShortPrefix(_, _)
LedgerInheritFdsShortPrefix(values, i) ==
    IF i > Len(values) THEN <<>>
    ELSE LET s == values[i]
             rest == LedgerInheritFdsShortPrefix(values, i + 1)
         IN  IF YAJL_IS_STRING(s) /\ StrNEq(s.s, PipePrefix, 4)
             THEN <<[fd |-> i - 1, key |-> s.s]>> \o rest
             ELSE rest

\* lines 363-379: the (fd, key) pairs handed to criu_add_inherit_fd, in order
RECURSIVE LedgerInheritFds(_, _)
LedgerInheritFds(values, i) ==
    IF i > Len(values) THEN <<>>
    ELSE LET s == values[i]
             rest == LedgerInheritFds(values, i + 1)
         IN  IF YAJL_IS_STRING(s) /\ StrNEq(s.s, PipePrefix, 5)
             THEN <<[fd |-> i - 1, key |-> s.s]>> \o rest
             ELSE rest

\* line 101 and 107: open without O_TRUNC, then write at offset 0
WriteAtStart(old, data) ==
    data \o SubSeq(old, Len(data) + 1, Len(old))

\* how status->external_descriptors is laid out: a JSON array of strings
RECURSIVE FormatElements(_, _)
FormatElements(v, i) ==
    IF i > Len(v) THEN <<>>
    ELSE (IF i > 1 THEN <<",">> ELSE <<>>) \o <<"\"">> \o v[i] \o <<"\"">>
         \o FormatElements(v, i + 1)

FormatLedger(v) == <<"[">> \o FormatElements(v, 1) \o <<"]">>

Pipe1 == PipePrefix \o <<"1">>
Pipe2 == PipePrefix \o <<"2">>
Pts == <<"/", "d">>

\* the descriptor destinations a caller can have recorded for fds 0, 1, 2
LedgerValues ==
    { <<Pipe1, Pts, Pipe2>>,
      <<Pts>>,
      <<<<"p", "i", "p", "e">>, <<"x">> \o PipePrefix>>,
      <<>> }

\* descriptors.json as an earlier run, or anything else, may have left it
InitialLedgerFiles ==
    { NULL,
      Some(<<>>),
      Some(<<"[">>),
      Some(<<"\"", "x", "\"">>),
      Some(<<"7">>),
      Some(<<"[", "7", ",">> \o <<"\"">> \o Pipe1 \o <<"\"", "]">>),
      Some(FormatLedger(<<Pts, Pipe1>>)) }

----------------------------------------------------------------------------
(* Container definitions *)

HasBindOption(m) ==
    \E j \in 1..Len(m.options) : m.options[j] = "bind" \/ m.options[j] = "rbind"

Mount(dest, src, type, options, kind) ==
    [destination |-> dest, source |-> src, type |-> type, options |-> options,
     src_kind |-> kind]

Masked(path, kind) == [path |-> path, kind |-> kind]

Namespace(type, path, ino) == [type |-> type, path |-> path, ino |-> ino]

PathA == <<"/", "a">>
PathAF == <<"/", "a", "/", "f">>
PathT == <<"/", "t">>
PathTA == <<"/", "t", "/", "a">>
PathTX == <<"/", "t", "x">>
PathC == <<"/", "c">>
PathH == <<"/", "h">>
PathHF == <<"/", "h", "/", "f">>
PathS == <<"/", "s">>
PathM == <<"/", "m">>

Defs ==
    { [mounts |-> << Mount(PathA, PathH, "bind", <<"rbind", "ro", "bind">>, "dir"),
                     Mount(PathAF, PathHF, "bind", <<"ro", "bind">>, "file"),
                     Mount(PathC, PathC, "cgroup", <<"ro">>, "dir") >>,
       masked_paths |-> << Masked(PathS, "reg"), Masked(PathM, "missing") >>,
       namespaces |-> << Namespace("pid", NULL, 0),
                         Namespace("network", Some("/run/netns/a"), 777) >>],
      [mounts |-> << Mount(PathTA, PathH, "bind", <<"bind">>, "dir"),
                     Mount(PathT, PathT, "tmpfs", <<"nosuid">>, "dir"),
                     Mount(PathTX, PathTX, "proc", <<>>, "dir") >>,
       masked_paths |-> << Masked(PathA, "dir") >>,
       namespaces |-> << Namespace("network", NULL, 0),
                         Namespace("network", Some("/run/netns/b"), 31),
                         Namespace("network", Some("/run/netns/c"), 32) >>],
      [mounts |-> << Mount(PathA, PathH, "bind", <<"rbind">>, "missing") >>,
       masked_paths |-> << >>,
       namespaces |-> << Namespace("mount", NULL, 0) >>],
      [mounts |-> << Mount(PathC, PathC, "cgroup2", <<"bind">>, "dir"),
                     Mount(PathS, PathS, "sysfs", <<"ro">>, "dir") >>,
       masked_paths |-> << Masked(PathS, "reg") >>,
       namespaces |-> << Namespace("mount", NULL, 0), Namespace("bogus", NULL, 0),
                         Namespace("network", Some("/run/netns/d"), 33) >>] }

\* linux.c: the CLONE_* flag of a namespace type name, negative when unknown
CLONE_NEWNET == 1073741824

libcrun_find_namespace(type) ==
    CASE type = "mount" -> 131072
      [] type = "network" -> CLONE_NEWNET
      [] type = "pid" -> 536870912
      [] type = "ipc" -> 134217728
      [] type = "uts" -> 67108864
      [] type = "user" -> 268435456
      [] type = "cgroup" -> 33554432
      [] OTHER -> -1

\* error.c: the value crun_make_error returns for a given status
crun_make_error(status_code) == 0 - status_code - 1

\* the errno values a failing system call leaves
Errnos == {2, 13}

----------------------------------------------------------------------------
(* Options of a call *)

AllFlags ==
    [leave_running |-> 1, ext_unix_sk |-> 1, shell_job |-> 1, tcp_established |-> 1]

BoolSets ==
    { [leave_running |-> 0, ext_unix_sk |-> 0, shell_job |-> 0, tcp_established |-> 0],
      AllFlags,
      [leave_running |-> 1, ext_unix_sk |-> 0, shell_job |-> 1, tcp_established |-> 0],
      [leave_running |-> 0, ext_unix_sk |-> 1, shell_job |-> 1, tcp_established |-> 0] }

NonRoot ==
    [euid |-> 1000, image_path |-> Some("img"), work_path |-> NULL, flags |-> AllFlags]

Options ==
    { [euid |-> 0, image_path |-> Some("img"), work_path |-> w, flags |-> b] :
          w \in {NULL, Some("work")}, b \in BoolSets }
    \cup
    { [euid |-> 0, image_path |-> NULL, work_path |-> NULL, flags |-> AllFlags],
      NonRoot }

----------------------------------------------------------------------------
(* The engine's option block, as criu_init_opts leaves it *)

EngEmpty ==
    [init |-> FALSE, images_dir |-> FALSE, work_dir |-> FALSE, pid |-> 0,
     root |-> NULL, ext_mounts |-> <<>>, external |-> <<>>, inherit_fds |-> <<>>,
     leave_running |-> -1, ext_unix_sk |-> -1, shell_job |-> -1,
     tcp_established |-> -1, log_file |-> "", dumps |-> 0, restores |-> 0,
     restore_ret |-> NULL]

InitPid == 100

Init ==
    /\ pc = "idle"
    /\ op = "none"
    /\ calls = 0
    /\ def \in Defs
    /\ opts = NonRoot
    /\ status = [pid |-> InitPid, external_descriptors |-> NULL]
    /\ \E f \in InitialLedgerFiles :
          fs = [image_dir |-> ~IsNull(f), desc_file |-> f, root_dir |-> FALSE,
                root_mounted |-> FALSE, cleanup_failed |-> FALSE, created |-> {}]
    /\ eng = EngEmpty
    /\ trace = <<>>
    /\ ret = 0
    /\ errs = <<>>
    /\ inherit_fd = -1
    /\ pid_at_call = InitPid

----------------------------------------------------------------------------
(* Steps shared by the two functions *)

Log(e) == trace' = Append(trace, e)

\* return crun_make_error (errs, status_code, ...)
Fail(kind, status_code) ==
    /\ ret' = crun_make_error(status_code)
    /\ errs' = Append(errs, kind)
    /\ pc' = "done"

\* the caller starts a checkpoint or a restore in a fresh crun process
Call ==
    /\ pc = "idle"
    /\ calls < MaxCalls
    /\ calls' = calls + 1
    /\ \E o \in {"checkpoint", "restore"}, c \in Options, v \in LedgerValues \cup {NULL} :
          /\ op' = o
          /\ opts' = c
          /\ pc' = IF o = "checkpoint" THEN "c_euid" ELSE "r_euid"
          /\ status' = [status EXCEPT !.external_descriptors =
                            IF o = "restore" THEN NULL
                            ELSE IF v \in LedgerValues THEN Some(FormatLedger(v))
                            ELSE NULL]
    /\ eng' = EngEmpty
    /\ trace' = <<>>
    /\ ret' = 0
    /\ errs' = <<>>
    /\ inherit_fd' = -1
    /\ pid_at_call' = status.pid
    /\ UNCHANGED <<def, fs>>

\* the call has returned `ret`; the crun process exits and its locals and
\* its libcriu option block go with it
Return ==
    /\ pc = "done"
    /\ pc' = "idle"
    /\ op' = "none"
    /\ opts' = NonRoot
    /\ eng' = EngEmpty
    /\ trace' = <<>>
    /\ ret' = 0
    /\ errs' = <<>>
    /\ inherit_fd' = -1
    /\ pid_at_call' = status.pid
    /\ UNCHANGED <<calls, def, status, fs>>

\* the loops of lines 143-157 and 404-418 without the `break`: one mapping
\* for every bind or rbind option of a record
RECURSIVE BindMountMappingsNoBreak(_, _, _)
BindMountMappingsNoBreak(mounts, i, restoring) ==
    IF i > Len(mounts) THEN <<>>
    ELSE LET m == mounts[i]
             hits == SelectSeq(m.options, LAMBDA o : o = "bind" \/ o = "rbind")
         IN  [k \in 1..Len(hits) |->
                 [key |-> m.destination,
                  val |-> IF restoring THEN m.source ELSE m.destination,
                  from |-> "mounts", idx |-> i]]
             \o BindMountMappingsNoBreak(mounts, i + 1, restoring)

\* the bind mounts of the table, as (destination, destination) on checkpoint
\* and (destination, source) on restore: lines 143-157 and 404-418
RECURSIVE BindMountMappings(_, _, _)
BindMountMappings(mounts, i, restoring) ==
    IF i > Len(mounts) THEN <<>>
    ELSE LET m == mounts[i]
             rest == BindMountMappings(mounts, i + 1, restoring)
         IN  IF HasBindOption(m)
             THEN <<[key |-> m.destination,
                     val |-> IF restoring THEN m.source ELSE m.destination,
                     from |-> "mounts", idx |-> i]>> \o rest
             ELSE rest

\* stat (path) == 0 && S_ISREG (st_mode)
IsRegularFile(mp) == mp.kind = "reg"

\* one masked-paths loop: lines 159-165, 420-426, 428-434 and 495-501
RECURSIVE MaskedMappings(_, _, _, _)
MaskedMappings(masked, i, toDevNull, from) ==
    IF i > Len(masked) THEN <<>>
    ELSE LET mp == masked[i]
             rest == MaskedMappings(masked, i + 1, toDevNull, from)
         IN  IF IsRegularFile(mp)
             THEN <<[key |-> mp.path,
                     val |-> IF toDevNull THEN DevNull ELSE mp.path,
                     from |-> from, idx |-> i]>> \o rest
             ELSE rest

\* the namespace loops without the test of the path: the loop stops at the
\* first network namespace, path or no path
RECURSIVE ScanNamespacesAnyPath(_, _)
ScanNamespacesAnyPath(nss, i) ==
    IF i > Len(nss) THEN [why |-> "none", at |-> 0]
    ELSE LET value == libcrun_find_namespace(nss[i].type)
         IN  IF value < 0 THEN [why |-> "invalid", at |-> i]
             ELSE IF value = CLONE_NEWNET
                  THEN [why |-> "net", at |-> i]
             ELSE ScanNamespacesAnyPath(nss, i + 1)

\* the namespace loops, lines 181-200 and 476-493: the index the loop stops
\* at and why ("invalid": unknown type; "net": a network namespace with a
\* path; "none": the loop ran to the end)
RECURSIVE ScanNamespaces(_, _)
ScanNamespaces(nss, i) ==
    IF i > Len(nss) THEN [why |-> "none", at |-> 0]
    ELSE LET value == libcrun_find_namespace(nss[i].type)
         IN  IF value < 0 THEN [why |-> "invalid", at |-> i]
             ELSE IF value = CLONE_NEWNET /\ ~IsNull(nss[i].path)
                  THEN [why |-> "net", at |-> i]
             ELSE ScanNamespaces(nss, i + 1)

\* decimal digits of a natural number, as printf ("%ld") writes them
DigitChar(d) ==
    CASE d = 0 -> "0" [] d = 1 -> "1" [] d = 2 -> "2" [] d = 3 -> "3" [] d = 4 -> "4"
      [] d = 5 -> "5" [] d = 6 -> "6" [] d = 7 -> "7" [] d = 8 -> "8" [] d = 9 -> "9"

RECURSIVE Decimal(_)
Decimal(n) ==
    IF n < 10 THEN <<DigitChar(n)>> ELSE Decimal(n \div 10) \o <<DigitChar(n % 10)>>

\* xasprintf (&external, "net[%ld]:extRootNetNS", st_ino)
ExternalNetString(ino) ==
    <<"n", "e", "t", "[">> \o Decimal(ino) \o <<"]", ":">> \o ExtRootNetNS

\* lines 203-206 and 504-506: the boolean options handed to the engine
SetBooleans(e, restoring) ==
    [e EXCEPT !.leave_running = IF restoring THEN @ ELSE opts.flags.leave_running,
              !.ext_unix_sk = opts.flags.ext_unix_sk,
              !.shell_job = opts.flags.shell_job,
              !.tcp_established = opts.flags.tcp_established]

----------------------------------------------------------------------------
(* libcrun_container_checkpoint_linux_criu, lines 41-219 *)

\* lines 57 and 319: geteuid ()
NotRootUnchecked == FALSE

NotRoot == opts.euid # 0

\* lines 57-58
C_Euid ==
    /\ pc = "c_euid"
    /\ IF NotRoot
       THEN Fail("requires_root", 0)
       ELSE /\ pc' = "c_init"
            /\ UNCHANGED <<ret, errs>>
    /\ UNCHANGED <<op, calls, def, opts, status, fs, eng, trace, inherit_fd, pid_at_call>>

\* lines 77-79
C_Init ==
    /\ pc = "c_init"
    /\ Log("criu_init_opts")
    /\ \E r \in {0, -1} :
          IF r < 0
          THEN /\ Fail("criu_init", 0)
               /\ UNCHANGED eng
          ELSE /\ eng' = [EngEmpty EXCEPT !.init = TRUE]
               /\ pc' = "c_image_path"
               /\ UNCHANGED <<ret, errs>>
    /\ UNCHANGED <<op, calls, def, opts, status, fs, inherit_fd, pid_at_call>>

\* lines 81 and 326: cr_options->image_path == NULL
ImagePathNotSetIgnored == FALSE

ImagePathNotSet == IsNull(opts.image_path)

\* lines 81-82
C_ImagePath ==
    /\ pc = "c_image_path"
    /\ IF ImagePathNotSet
       THEN Fail("image_path_not_set", 0)
       ELSE /\ pc' = "c_mkdir"
            /\ UNCHANGED <<ret, errs>>
    /\ UNCHANGED <<op, calls, def, opts, status, fs, eng, trace, inherit_fd, pid_at_call>>

\* lines 84-88: mkdir, EEXIST tolerated
C_Mkdir ==
    /\ pc = "c_mkdir"
    /\ Log("mkdir_image")
    /\ \/ /\ pc' = "c_open_image"
          /\ fs' = [fs EXCEPT !.image_dir = TRUE]
          /\ UNCHANGED <<ret, errs>>
       \/ /\ ~fs.image_dir
          /\ \E e \in Errnos : Fail("mkdir_image", e)
          /\ UNCHANGED fs
    /\ UNCHANGED <<op, calls, def, opts, status, eng, inherit_fd, pid_at_call>>

\* lines 90-95
C_OpenImage ==
    /\ pc = "c_open_image"
    /\ \/ /\ fs.image_dir
          /\ trace' = trace \o <<"open_image", "criu_set_images_dir_fd">>
          /\ eng' = [eng EXCEPT !.images_dir = TRUE]
          /\ pc' = "c_open_desc"
          /\ UNCHANGED <<ret, errs>>
       \/ /\ Log("open_image")
          /\ \E e \in Errnos : Fail("open_image", e)
          /\ UNCHANGED eng
    /\ UNCHANGED <<op, calls, def, opts, status, fs, inherit_fd, pid_at_call>>

\* lines 99-104: open (O_CREAT | O_WRONLY | O_CLOEXEC)
C_OpenDescriptors ==
    /\ pc = "c_open_desc"
    /\ Log("open_descriptors")
    /\ \/ /\ fs' = [fs EXCEPT !.desc_file = IF IsNull(@) THEN Some(<<>>) ELSE @]
          /\ pc' = "c_write_desc"
          /\ UNCHANGED <<ret, errs>>
       \/ /\ \E e \in Errnos : Fail("open_descriptors", e)
          /\ UNCHANGED fs
    /\ UNCHANGED <<op, calls, def, opts, status, eng, inherit_fd, pid_at_call>>

\* lines 105-111
C_WriteDescriptors ==
    /\ pc = "c_write_desc"
    /\ IF IsNull(status.external_descriptors)
       THEN /\ pc' = "c_work"
            /\ UNCHANGED <<fs, trace, ret, errs>>
       ELSE /\ Log("write_descriptors")
            /\ \/ /\ fs' = [fs EXCEPT !.desc_file =
                               Some(WriteAtStart(Deref(@), Deref(status.external_descriptors)))]
                  /\ pc' = "c_work"
                  /\ UNCHANGED <<ret, errs>>
               \/ /\ \E e \in Errnos : Fail("write_descriptors", e)
                  /\ UNCHANGED fs
    /\ UNCHANGED <<op, calls, def, opts, status, eng, inherit_fd, pid_at_call>>

\* lines 116-130
C_WorkDir ==
    /\ pc = "c_work"
    /\ IF ~IsNull(opts.work_path)
       THEN \/ /\ trace' = trace \o <<"open_work", "criu_set_work_dir_fd">>
               /\ eng' = [eng EXCEPT !.work_dir = TRUE]
               /\ pc' = "c_root"
               /\ UNCHANGED <<opts, ret, errs>>
            \/ /\ Log("open_work")
               /\ \E e \in Errnos : Fail("open_work", e)
               /\ UNCHANGED <<opts, eng>>
       ELSE /\ opts' = [opts EXCEPT !.work_path = opts.image_path]
            /\ pc' = "c_root"
            /\ UNCHANGED <<eng, trace, ret, errs>>
    /\ UNCHANGED <<op, calls, def, status, fs, inherit_fd, pid_at_call>>

\* line 139: ret != 0
SetRootFailedUnchecked(r) == FALSE

SetRootFailed(r) == r # 0

\* lines 134-140
C_SetRoot ==
    /\ pc = "c_root"
    /\ trace' = trace \o <<"criu_set_pid", "criu_set_root">>
    /\ \E r \in {0, -1} :
          IF SetRootFailed(r)
          THEN /\ Fail("criu_set_root", 0)
               /\ eng' = [eng EXCEPT !.pid = status.pid]
          ELSE /\ eng' = [eng EXCEPT !.pid = status.pid,
                                     !.root = IF r = 0 THEN Some("rootfs") ELSE @]
               /\ pc' = "c_ext"
               /\ UNCHANGED <<ret, errs>>
    /\ UNCHANGED <<op, calls, def, opts, status, fs, inherit_fd, pid_at_call>>

\* lines 143-165: external bind mounts and masked paths
C_ExternalMounts ==
    /\ pc = "c_ext"
    /\ LET added == BindMountMappings(def.mounts, 1, FALSE)
                    \o MaskedMappings(def.masked_paths, 1, FALSE, "masked")
       IN  /\ eng' = [eng EXCEPT !.ext_mounts = @ \o added]
           /\ trace' = trace \o [k \in 1..Len(added) |-> "criu_add_ext_mount"]
    /\ pc' = "c_ns"
    /\ UNCHANGED <<op, calls, def, opts, status, fs, ret, errs, inherit_fd, pid_at_call>>

\* lines 181-200
C_Namespaces ==
    /\ pc = "c_ns"
    /\ LET scan == ScanNamespaces(def.namespaces, 1)
       IN  CASE scan.why = "invalid" ->
                  /\ Fail("invalid_namespace", 0)
                  /\ UNCHANGED <<eng, trace>>
             [] scan.why = "net" ->
                  \/ /\ Log("stat_netns")
                     /\ \E e \in Errnos : Fail("stat_netns", e)
                     /\ UNCHANGED eng
                  \/ /\ trace' = trace \o <<"stat_netns", "criu_add_external">>
                     /\ eng' = [eng EXCEPT !.external = Append(@,
                                   ExternalNetString(def.namespaces[scan.at].ino))]
                     /\ pc' = "c_dump"
                     /\ UNCHANGED <<ret, errs>>
             [] OTHER ->
                  /\ pc' = "c_dump"
                  /\ UNCHANGED <<eng, trace, ret, errs>>
    /\ UNCHANGED <<op, calls, def, opts, status, fs, inherit_fd, pid_at_call>>

\* lines 203-218
C_Dump ==
    /\ pc = "c_dump"
    /\ trace' = trace \o <<"criu_set_leave_running", "criu_set_ext_unix_sk",
                           "criu_set_shell_job", "criu_set_tcp_established",
                           "criu_set_log_level", "criu_set_log_file", "criu_dump">>
    /\ eng' = [SetBooleans(eng, FALSE) EXCEPT !.log_file = "dump.log", !.dumps = @ + 1]
    /\ \E r \in {0, -1} :
          IF r # 0
          THEN Fail("criu_dump", 0)
          ELSE /\ ret' = 0
               /\ pc' = "done"
               /\ UNCHANGED errs
    /\ UNCHANGED <<op, calls, def, opts, status, fs, inherit_fd, pid_at_call>>

----------------------------------------------------------------------------
(* prepare_restore_mounts, lines 221-302 *)

\* lines 245-257 comparing against the destination alone, no "/" appended
OnTmpfsNoSlash(mounts, dest) ==
    \E j \in 1..Len(mounts) :
        LET dest_loop == mounts[j].destination
        IN  /\ StrNEq(dest, dest_loop, Len(dest_loop))
            /\ mounts[j].type = "tmpfs"

\* lines 245-257: dest lies under the destination of a tmpfs mount
OnTmpfs(mounts, dest) ==
    \E j \in 1..Len(mounts) :
        LET dest_loop == mounts[j].destination \o <<"/">>
        IN  /\ StrNEq(dest, dest_loop, Len(dest_loop))
            /\ mounts[j].type = "tmpfs"

\* utils.c: 1 for a directory, 0 for anything else, an error when stat fails
crun_dir_p(m) ==
    CASE m.src_kind = "dir" -> 1
      [] m.src_kind = "file" -> 0
      [] OTHER -> crun_make_error(2)

\* what the environment does to one run of the function: the mount record
\* at which opening the root or creating the destination fails (0: nowhere)
PrepareEnvs(mounts) ==
    { [at |-> 0, step |-> "none", errno |-> 0] }
    \cup { [at |-> i, step |-> st, errno |-> e] :
             i \in 1..Len(mounts), st \in {"open", "create"}, e \in Errnos }

\* line 281: if (is_dir)
EnsuresDirectoryAlways(is_dir) == TRUE

EnsuresDirectory(is_dir) == is_dir # 0

\* lines 229-301, from record i on; `made` are the mountpoints created so
\* far and `log` the calls made so far
RECURSIVE prepare_restore_mounts(_, _, _, _, _)
prepare_restore_mounts(mounts, i, env, made, log) ==
    IF i > Len(mounts) THEN [ret |-> 0, err |-> "", made |-> made, log |-> log]
    ELSE LET m == mounts[i]
         IN  IF m.type = "cgroup" \/ m.type = "cgroup2"
             THEN prepare_restore_mounts(mounts, i + 1, env, made, log)
             ELSE IF OnTmpfs(mounts, m.destination)
             THEN prepare_restore_mounts(mounts, i + 1, env, made, log)
             ELSE LET is_dir == IF HasBindOption(m) THEN crun_dir_p(m) ELSE 1
                      log1 == IF HasBindOption(m) THEN Append(log, "crun_dir_p") ELSE log
                      log2 == Append(log1, "open_root")
                      log3 == Append(log2, IF EnsuresDirectory(is_dir)
                                           THEN "crun_safe_ensure_directory_at"
                                           ELSE "crun_safe_ensure_file_at")
                  IN  IF is_dir < 0
                      THEN [ret |-> is_dir, err |-> "stat_source", made |-> made,
                            log |-> log1]
                      ELSE IF env.at = i /\ env.step = "open"
                      THEN [ret |-> crun_make_error(env.errno), err |-> "open_root",
                            made |-> made, log |-> log2]
                      ELSE IF env.at = i /\ env.step = "create"
                      THEN [ret |-> crun_make_error(env.errno),
                            err |-> "create_mountpoint", made |-> made, log |-> log3]
                      ELSE prepare_restore_mounts(mounts, i + 1, env,
                              made \cup {[dest |-> m.destination,
                                          kind |-> IF EnsuresDirectory(is_dir)
                                                   THEN "dir" ELSE "file"]},
                              log3)

----------------------------------------------------------------------------
(* libcrun_container_restore_linux_criu, lines 304-542 *)

\* what criu_restore_child can return: an error, or the pid of the restored tree
RestoreResults == {-1, 0, 4242}

\* lines 319-320
R_Euid ==
    /\ pc = "r_euid"
    /\ IF NotRoot
       THEN Fail("requires_root", 0)
       ELSE /\ pc' = "r_init"
            /\ UNCHANGED <<ret, errs>>
    /\ UNCHANGED <<op, calls, def, opts, status, fs, eng, trace, inherit_fd, pid_at_call>>

\* lines 322-324
R_Init ==
    /\ pc = "r_init"
    /\ Log("criu_init_opts")
    /\ \E r \in {0, -1} :
          IF r < 0
          THEN /\ Fail("criu_init", 0)
               /\ UNCHANGED eng
          ELSE /\ eng' = [EngEmpty EXCEPT !.init = TRUE]
               /\ pc' = "r_image_path"
               /\ UNCHANGED <<ret, errs>>
    /\ UNCHANGED <<op, calls, def, opts, status, fs, inherit_fd, pid_at_call>>

\* lines 326-327
R_ImagePath ==
    /\ pc = "r_image_path"
    /\ IF ImagePathNotSet
       THEN Fail("image_path_not_set", 0)
       ELSE /\ pc' = "r_open_image"
            /\ UNCHANGED <<ret, errs>>
    /\ UNCHANGED <<op, calls, def, opts, status, fs, eng, trace, inherit_fd, pid_at_call>>

\* lines 329-334
R_OpenImage ==
    /\ pc = "r_open_image"
    /\ \/ /\ fs.image_dir
          /\ trace' = trace \o <<"open_image", "criu_set_images_dir_fd">>
          /\ eng' = [eng EXCEPT !.images_dir = TRUE]
          /\ pc' = "r_read_desc"
          /\ UNCHANGED <<ret, errs>>
       \/ /\ Log("open_image")
          /\ \E e \in Errnos : Fail("open_image", e)
          /\ UNCHANGED eng
    /\ UNCHANGED <<op, calls, def, opts, status, fs, inherit_fd, pid_at_call>>

\* line 358: tree == NULL
ParseFailedUnchecked(tree) == FALSE

ParseFailed(tree) == IsNull(tree)

\* lines 336-381: read descriptors.json, parse it, register the pipes
R_ReadDescriptors ==
    /\ pc = "r_read_desc"
    /\ Log("read_descriptors")
    /\ \/ /\ \E e \in Errnos : Fail("read_descriptors", e)
          /\ UNCHANGED <<status, eng>>
       \/ /\ ~IsNull(fs.desc_file)
          /\ LET buffer == Deref(fs.desc_file)
                 tree == yajl_tree_parse(buffer)
             IN  /\ status' = [status EXCEPT !.external_descriptors = Some(buffer)]
                 /\ IF ParseFailed(tree)
                    THEN /\ Fail("parse_descriptors", 0)
                         /\ UNCHANGED eng
                    ELSE /\ eng' = [eng EXCEPT !.inherit_fds =
                                       IF ~IsNull(tree) /\ YAJL_IS_ARRAY(Deref(tree))
                                       THEN @ \o LedgerInheritFds(Deref(tree).a, 1)
                                       ELSE @]
                         /\ pc' = "r_work"
                         /\ UNCHANGED <<ret, errs>>
    /\ UNCHANGED <<op, calls, def, opts, fs, inherit_fd, pid_at_call>>

\* lines 387-401
R_WorkDir ==
    /\ pc = "r_work"
    /\ IF ~IsNull(opts.work_path)
       THEN \/ /\ trace' = trace \o <<"open_work", "criu_set_work_dir_fd">>
               /\ eng' = [eng EXCEPT !.work_dir = TRUE]
               /\ pc' = "r_ext"
               /\ UNCHANGED <<opts, ret, errs>>
            \/ /\ Log("open_work")
               /\ \E e \in Errnos : Fail("open_work", e)
               /\ UNCHANGED <<opts, eng>>
       ELSE /\ opts' = [opts EXCEPT !.work_path = opts.image_path]
            /\ pc' = "r_ext"
            /\ UNCHANGED <<eng, trace, ret, errs>>
    /\ UNCHANGED <<op, calls, def, status, fs, inherit_fd, pid_at_call>>

\* lines 404-434: external bind mounts, then the masked paths twice
R_ExternalMounts ==
    /\ pc = "r_ext"
    /\ LET added == BindMountMappings(def.mounts, 1, TRUE)
                    \o MaskedMappings(def.masked_paths, 1, TRUE, "masked")
                    \o MaskedMappings(def.masked_paths, 1, TRUE, "masked_again")
       IN  /\ eng' = [eng EXCEPT !.ext_mounts = @ \o added]
           /\ trace' = trace \o [k \in 1..Len(added) |-> "criu_add_ext_mount"]
    /\ pc' = "r_mkdir"
    /\ UNCHANGED <<op, calls, def, opts, status, fs, ret, errs, inherit_fd, pid_at_call>>

\* lines 438-443: mkdir (bundle/criu-root)
R_Mkdir ==
    /\ pc = "r_mkdir"
    /\ Log("mkdir_root")
    /\ \/ /\ ~fs.root_dir
          /\ fs' = [fs EXCEPT !.root_dir = TRUE]
          /\ pc' = "r_mount"
          /\ UNCHANGED <<ret, errs>>
       \/ /\ \E e \in (IF fs.root_dir THEN {17} ELSE Errnos) : Fail("mkdir_root", e)
          /\ UNCHANGED fs
    /\ UNCHANGED <<op, calls, def, opts, status, eng, inherit_fd, pid_at_call>>

\* line 450: where a failed mount continues (goto out)
AfterMountFailureUnmounts == "r_umount"

AfterMountFailure == "r_rmdir"

\* lines 445-451: bind-mount the rootfs on bundle/criu-root
R_Mount ==
    /\ pc = "r_mount"
    /\ Log("mount_root")
    /\ \/ /\ fs' = [fs EXCEPT !.root_mounted = TRUE]
          /\ pc' = "r_prepare"
          /\ UNCHANGED <<ret, errs>>
       \/ /\ \E e \in Errnos : ret' = crun_make_error(e)
          /\ errs' = Append(errs, "mount_root")
          /\ pc' = AfterMountFailure
          /\ UNCHANGED fs
    /\ UNCHANGED <<op, calls, def, opts, status, eng, inherit_fd, pid_at_call>>

\* line 462: where a failed prepare_restore_mounts continues (goto out_umount)
AfterPrepareFailureContinues == "r_set_root"

AfterPrepareFailure == "r_umount"

\* lines 460-462
R_Prepare ==
    /\ pc = "r_prepare"
    /\ \E env \in PrepareEnvs(def.mounts) :
          LET r == prepare_restore_mounts(def.mounts, 1, env, {}, <<>>)
          IN  /\ trace' = trace \o <<"prepare_restore_mounts">> \o r.log
              /\ fs' = [fs EXCEPT !.created = @ \cup r.made]
              /\ ret' = r.ret
              /\ IF r.ret < 0
                 THEN /\ errs' = Append(errs, r.err)
                      /\ pc' = AfterPrepareFailure
                 ELSE /\ pc' = "r_set_root"
                      /\ UNCHANGED errs
    /\ UNCHANGED <<op, calls, def, opts, status, eng, inherit_fd, pid_at_call>>

\* lines 464-469
R_SetRoot ==
    /\ pc = "r_set_root"
    /\ Log("criu_set_root")
    /\ \E r \in {0, -1} :
          /\ IF r # 0
             THEN /\ ret' = crun_make_error(0)
                  /\ errs' = Append(errs, "criu_set_root")
                  /\ pc' = "r_umount"
                  /\ UNCHANGED eng
             ELSE /\ ret' = r
                  /\ eng' = [eng EXCEPT !.root = Some("criu-root")]
                  /\ pc' = "r_ns"
                  /\ UNCHANGED errs
    /\ UNCHANGED <<op, calls, def, opts, status, fs, inherit_fd, pid_at_call>>

\* lines 476-493: both error exits are plain returns; the test after open
\* reads `ret`, not `inherit_fd`
R_Namespaces ==
    /\ pc = "r_ns"
    /\ LET scan == ScanNamespaces(def.namespaces, 1)
       IN  CASE scan.why = "invalid" ->
                  /\ Fail("invalid_namespace", 0)
                  /\ UNCHANGED <<eng, trace, inherit_fd>>
             [] scan.why = "net" ->
                  \E fd \in {5, -1} :
                      /\ inherit_fd' = fd
                      /\ IF ret < 0
                         THEN /\ Log("open_netns")
                              /\ \E e \in Errnos : Fail("open_netns", e)
                              /\ UNCHANGED eng
                         ELSE /\ trace' = trace \o <<"open_netns", "criu_add_inherit_fd">>
                              /\ eng' = [eng EXCEPT !.inherit_fds =
                                            Append(@, [fd |-> fd, key |-> ExtRootNetNS,
                                                       path |-> def.namespaces[scan.at].path])]
                              /\ pc' = "r_restore"
                              /\ UNCHANGED <<ret, errs>>
             [] OTHER ->
                  /\ pc' = "r_restore"
                  /\ UNCHANGED <<eng, trace, ret, errs, inherit_fd>>
    /\ UNCHANGED <<op, calls, def, opts, status, fs, pid_at_call>>

\* line 522: where a failed criu_restore_child continues (goto out_umount)
AfterRestoreFailureReturns == "done"

AfterRestoreFailure == "r_umount"

\* lines 495-527: a third masked-paths loop, the boolean options, the restore
R_Restore ==
    /\ pc = "r_restore"
    /\ \E r \in RestoreResults :
          /\ LET added == MaskedMappings(def.masked_paths, 1, FALSE, "masked_late")
             IN  /\ trace' = trace \o [k \in 1..Len(added) |-> "criu_add_ext_mount"]
                             \o <<"criu_set_ext_unix_sk", "criu_set_shell_job",
                                  "criu_set_tcp_established", "criu_set_log_level",
                                  "criu_set_log_file", "criu_restore_child">>
                 /\ eng' = [SetBooleans(eng, TRUE) EXCEPT !.ext_mounts = @ \o added,
                                                          !.log_file = "restore.log",
                                                          !.restores = @ + 1,
                                                          !.restore_ret = Some(r)]
          /\ IF r <= 0
             THEN /\ ret' = crun_make_error(0)
                  /\ errs' = Append(errs, "criu_restore")
                  /\ pc' = AfterRestoreFailure
                  /\ UNCHANGED status
             ELSE /\ ret' = r
                  /\ status' = [status EXCEPT !.pid = r]
                  /\ pc' = "r_umount"
                  /\ UNCHANGED errs
    /\ UNCHANGED <<op, calls, def, opts, fs, inherit_fd, pid_at_call>>

\* lines 529-533, out_umount: a failed umount returns at once
R_Umount ==
    /\ pc = "r_umount"
    /\ \/ /\ Log("umount_root")
          /\ fs' = [fs EXCEPT !.root_mounted = FALSE]
          /\ pc' = "r_rmdir"
          /\ UNCHANGED <<ret, errs>>
       \/ /\ trace' = trace \o <<"umount_root", "umount_root_failed">>
          /\ \E e \in Errnos : Fail("umount_root", e)
          /\ fs' = [fs EXCEPT !.cleanup_failed = TRUE]
    /\ UNCHANGED <<op, calls, def, opts, status, eng, inherit_fd, pid_at_call>>

\* lines 534-541, out
R_Rmdir ==
    /\ pc = "r_rmdir"
    /\ \E ret_out \in {0, -1} :
          /\ trace' = trace \o (IF ret_out = 0 THEN <<"rmdir_root">>
                                ELSE <<"rmdir_root", "rmdir_root_failed">>)
          /\ fs' = [fs EXCEPT !.root_dir = IF ret_out = 0 THEN FALSE ELSE @,
                              !.cleanup_failed = @ \/ ret_out = -1]
          /\ IF ret = -1
             THEN UNCHANGED <<ret, errs>>
             ELSE IF ret_out = -1
             THEN /\ \E e \in Errnos : ret' = crun_make_error(e)
                  /\ errs' = Append(errs, "rmdir_root")
             ELSE UNCHANGED <<ret, errs>>
    /\ pc' = "done"
    /\ UNCHANGED <<op, calls, def, opts, status, eng, inherit_fd, pid_at_call>>

----------------------------------------------------------------------------
Next ==
    \/ Call
    \/ Return
    \/ C_Euid
    \/ C_Init
    \/ C_ImagePath
    \/ C_Mkdir
    \/ C_OpenImage
    \/ C_OpenDescriptors
    \/ C_WriteDescriptors
    \/ C_WorkDir
    \/ C_SetRoot
    \/ C_ExternalMounts
    \/ C_Namespaces
    \/ C_Dump
    \/ R_Euid
    \/ R_Init
    \/ R_ImagePath
    \/ R_OpenImage
    \/ R_ReadDescriptors
    \/ R_WorkDir
    \/ R_ExternalMounts
    \/ R_Mkdir
    \/ R_Mount
    \/ R_Prepare
    \/ R_SetRoot
    \/ R_Namespaces
    \/ R_Restore
    \/ R_Umount
    \/ R_Rmdir

Spec == Init /\ [][Next]_vars

----------------------------------------------------------------------------
(* Vocabulary of the properties *)

InTrace(e) == \E i \in 1..Len(trace) : trace[i] = e

MadeError(kind) == \E i \in 1..Len(errs) : errs[i] = kind

CheckpointReturned == pc = "done" /\ op = "checkpoint"

RestoreReturned == pc = "done" /\ op = "restore"

EngineRestoreFailed == ~IsNull(eng.restore_ret) /\ Deref(eng.restore_ret) <= 0

CleanupStepFailed == InTrace("umount_root_failed") \/ InTrace("rmdir_root_failed")

RootGone == ~fs.root_mounted /\ ~fs.root_dir

----------------------------------------------------------------------------
(* C1 *)

\* C1 as stated: whenever criu_restore_child failed, bundle/criu-root is
\* unmounted and absent once the restore call has returned, whatever error
\* is returned, a failing umount or rmdir included.
C1_RootGoneAfterFailedRestore ==
    (RestoreReturned /\ EngineRestoreFailed) => RootGone

\* C1 amended: whenever criu_restore_child failed, the call attempts the
\* unmount before it returns, and bundle/criu-root is unmounted and absent
\* on return provided the unmount and the removal both succeeded; when the
\* unmount failed the root is still mounted and present and the removal was
\* not attempted; when the removal failed the root is unmounted but present.
C1_CleanupAfterFailedRestore ==
    (RestoreReturned /\ EngineRestoreFailed) =>
        /\ InTrace("umount_root")
        /\ InTrace("umount_root_failed") =>
              fs.root_mounted /\ fs.root_dir /\ ~InTrace("rmdir_root")
        /\ ~InTrace("umount_root_failed") =>
              /\ InTrace("rmdir_root")
              /\ ~fs.root_mounted
              /\ fs.root_dir <=> InTrace("rmdir_root_failed")

\* a failed engine restore after which both cleanup steps succeeded
C1_Witness ==
    /\ RestoreReturned
    /\ EngineRestoreFailed
    /\ err = "criu_restore"
    /\ ~CleanupStepFailed
    /\ RootGone

----------------------------------------------------------------------------
(* C2 *)

\* C2: when a step after the bind mount fails before the engine restore is
\* invoked, the call unmounts and removes bundle/criu-root before it returns
\* (read in the sense most favourable to the code: unless the umount or the
\* rmdir itself failed).
C2_CleanupAfterBindMount ==
    (/\ RestoreReturned
     /\ InTrace("prepare_restore_mounts")
     /\ eng.restores = 0
     /\ ~CleanupStepFailed) => RootGone

----------------------------------------------------------------------------
(* C3 *)

FirstFailures ==
    {"mount_root", "stat_source", "open_root", "create_mountpoint", "criu_set_root",
     "criu_restore"}

\* C3: when a step of restore failed (bind mount, mountpoint recreation, set
\* root, engine restore) and a cleanup step failed after it, the error the
\* caller gets is the first one.
C3_FirstErrorReturned ==
    (/\ RestoreReturned
     /\ errs # <<>>
     /\ errs[1] \in FirstFailures
     /\ CleanupStepFailed) => err = errs[1]

----------------------------------------------------------------------------
(* C4 *)

\* C4 as stated: with no image path in the options, checkpoint and restore
\* make no engine call (engine init included) and no filesystem operation,
\* and return the precondition error.
C4_NoImagePathNoCalls ==
    (op # "none" /\ IsNull(opts.image_path)) =>
        /\ trace = <<>>
        /\ pc = "done" => err = "image_path_not_set"

\* C4 amended: with no image path in the options, the only call checkpoint
\* and restore make is engine init (criu_init_opts), which comes before the
\* image-path check; when init succeeded the call returns the precondition
\* error, otherwise the init error; no other engine call and no filesystem
\* operation is made.
C4_NoImagePathOnlyInit ==
    (op # "none" /\ IsNull(opts.image_path)) =>
        /\ trace \in {<<>>, <<"criu_init_opts">>}
        /\ eng \in {EngEmpty, [EngEmpty EXCEPT !.init = TRUE]}
        /\ pc = "done" =>
              /\ trace = <<"criu_init_opts">>
              /\ err = IF eng.init THEN "image_path_not_set" ELSE "criu_init"
              /\ ret < 0

\* a restore without image path that returned the precondition error
C4_Witness ==
    /\ RestoreReturned
    /\ IsNull(opts.image_path)
    /\ err = "image_path_not_set"
    /\ trace = <<"criu_init_opts">>

----------------------------------------------------------------------------
(* C5 *)

\* C5: after a checkpoint that succeeded, descriptors.json holds exactly the
\* external_descriptors of that checkpoint, whatever the file held before.
C5_LedgerHoldsLastCheckpoint ==
    (/\ CheckpointReturned
     /\ errs = <<>>
     /\ ~IsNull(status.external_descriptors)) =>
        fs.desc_file = status.external_descriptors

----------------------------------------------------------------------------
(* C6 and C7 *)

\* the ledgers a checkpoint of this model can write, and the one Init holds
KnownLedgers == LedgerValues \cup {<<Pts, Pipe1>>}

\* restore has read descriptors.json into status->external_descriptors
LedgerRead == op = "restore" /\ ~IsNull(status.external_descriptors)

Buffer == Deref(status.external_descriptors)

WellFormedStringArray(text) == \E v \in KnownLedgers : text = FormatLedger(v)

BeginsWithPipe(x) == Len(x) >= 5 /\ SubSeq(x, 1, 5) = PipePrefix

\* what restore registered with criu_add_inherit_fd while reading the ledger
LedgerRegistered ==
    { eng.inherit_fds[k] : k \in {n \in 1..Len(eng.inherit_fds) :
                                     eng.inherit_fds[n].key # ExtRootNetNS} }

NonArrayText == {<<"\"", "x", "\"">>, <<"7">>}

NonStringElementText == <<"[", "7", ",", "\"">> \o Pipe1 \o <<"\"", "]">>

\* C6 as stated: a descriptors.json that is not a well-formed JSON array of
\* strings makes restore fail with the parse error, and the engine restore
\* is not invoked.
C6_IllFormedLedgerRejected ==
    (LedgerRead /\ ~WellFormedStringArray(Buffer)) =>
        /\ pc = "done"
        /\ err = "parse_descriptors"
        /\ eng.restores = 0

\* C6 amended: a descriptors.json that yajl cannot parse (an empty file,
\* unparseable text, text after the value) makes restore fail with the
\* parse error, and the engine restore is not invoked; a well-formed JSON
\* value that is not an array, and an array holding a non-string element,
\* are accepted: the non-array value and the non-string element register
\* nothing and restore goes on.
C6_UnparseableLedgerRejected ==
    LedgerRead =>
        /\ (Buffer \in {<<>>, <<"[">>} \/ IsNull(yajl_tree_parse(Buffer))) =>
              /\ pc = "done"
              /\ err = "parse_descriptors"
              /\ eng.restores = 0
        /\ Buffer \in NonArrayText =>
              /\ ~MadeError("parse_descriptors")
              /\ LedgerRegistered = {}
        /\ Buffer = NonStringElementText =>
              /\ ~MadeError("parse_descriptors")
              /\ LedgerRegistered = {[fd |-> 1, key |-> Pipe1]}

\* a restore that stopped at an empty descriptors.json
C6_Witness ==
    /\ RestoreReturned
    /\ LedgerRead
    /\ Buffer = <<>>
    /\ err = "parse_descriptors"
    /\ eng.restores = 0

\* C7: for a ledger array v, what restore registers from the ledger is
\* exactly the pairs (i, v[i]) with v[i] beginning with "pipe:", each once.
C7_LedgerPipesRegistered ==
    (LedgerRead /\ ~MadeError("parse_descriptors")) =>
        /\ \A v \in KnownLedgers :
              Buffer = FormatLedger(v) =>
                  /\ LedgerRegistered =
                        { [fd |-> i - 1, key |-> v[i]] :
                              i \in {j \in 1..Len(v) : BeginsWithPipe(v[j])} }
                  /\ Cardinality(LedgerRegistered) =
                        Len(SelectSeq(eng.inherit_fds, LAMBDA e : e.key # ExtRootNetNS))
        /\ Buffer = NonStringElementText =>
              LedgerRegistered = {[fd |-> 1, key |-> Pipe1]}

\* the ledger ["pipe:1","/d","pipe:2"] written by a checkpoint and read back
C7_Witness ==
    /\ RestoreReturned
    /\ LedgerRead
    /\ Buffer = FormatLedger(<<Pipe1, Pts, Pipe2>>)
    /\ LedgerRegistered = {[fd |-> 0, key |-> Pipe1], [fd |-> 2, key |-> Pipe2]}
    /\ eng.restores = 1

----------------------------------------------------------------------------
(* C8 and C9 *)

\* the call is past its external-mount loops (lines 143-165, 404-434)
PastExternalMounts ==
    pc \in {"c_ns", "c_dump", "r_mkdir", "r_mount", "r_prepare", "r_set_root", "r_ns",
            "r_restore", "r_umount", "r_rmdir"}

ExtMountsOf(from_mounts, i) ==
    SelectSeq(eng.ext_mounts,
              LAMBDA e : (e.from = "mounts") = from_mounts /\ e.idx = i)

\* C8: a masked path that is a regular file gets the mapping (path, path) on
\* checkpoint and (path, "/dev/null") on restore, and on restore no mapping
\* with another source; any other masked path gets no mapping.
C8_MaskedPathMappings ==
    op # "none" =>
        \A i \in 1..Len(def.masked_paths) :
            LET mp == def.masked_paths[i]
                got == ExtMountsOf(FALSE, i)
                want == IF op = "restore" THEN DevNull ELSE mp.path
            IN  IF mp.kind = "reg"
                THEN /\ \A k \in 1..Len(got) : got[k].key = mp.path /\ got[k].val = want
                     /\ PastExternalMounts => Len(got) >= 1
                ELSE Len(got) = 0

ListsBind(m) == \E j \in 1..Len(m.options) : m.options[j] \in {"bind", "rbind"}

\* C9: every mount record gets at most one external-mount mapping, and gets
\* one only if its options list bind or rbind: (destination, destination)
\* on checkpoint, (destination, source) on restore.
C9_BindMountMappings ==
    op # "none" =>
        \A i \in 1..Len(def.mounts) :
            LET m == def.mounts[i]
                got == ExtMountsOf(TRUE, i)
            IN  /\ Len(got) <= 1
                /\ Len(got) = 1 =>
                      /\ ListsBind(m)
                      /\ got[1].key = m.destination
                      /\ got[1].val = IF op = "restore" THEN m.source ELSE m.destination
                /\ (PastExternalMounts /\ ListsBind(m)) => Len(got) = 1

\* a restore past its loops whose first mount lists rbind and bind and has
\* the one mapping ("/a", "/h"), while the record without them has none
C9_Witness ==
    /\ op = "restore"
    /\ pc = "r_restore"
    /\ Len(def.mounts) = 3
    /\ def.mounts[1].options = <<"rbind", "ro", "bind">>
    /\ ExtMountsOf(TRUE, 1) =
          <<[key |-> PathA, val |-> PathH, from |-> "mounts", idx |-> 1]>>
    /\ ExtMountsOf(TRUE, 3) = <<>>

----------------------------------------------------------------------------
(* C10 *)

\* C10: when opening the path of the network namespace fails, restore
\* returns an I/O error, registers nothing under extRootNetNS and does not
\* invoke the engine restore.
C10_FailedNetnsOpenStopsRestore ==
    (op = "restore" /\ InTrace("open_netns") /\ inherit_fd = -1) =>
        /\ \A k \in 1..Len(eng.inherit_fds) : eng.inherit_fds[k].key # ExtRootNetNS
        /\ eng.restores = 0
        /\ pc = "done" => MadeError("open_netns")

----------------------------------------------------------------------------
(* C11 *)

\* the namespace records whose type resolves to network and which have a path
NetworkRecords ==
    { i \in 1..Len(def.namespaces) :
          /\ libcrun_find_namespace(def.namespaces[i].type) = CLONE_NEWNET
          /\ ~IsNull(def.namespaces[i].path) }

FirstNetworkRecord == CHOOSE i \in NetworkRecords : \A j \in NetworkRecords : i <= j

\* the network-namespace references the engine holds: the external strings
\* of a checkpoint, the inherited descriptors under extRootNetNS of a restore
NetworkReferences ==
    IF op = "checkpoint" THEN eng.external
    ELSE SelectSeq(eng.inherit_fds, LAMBDA e : e.key = ExtRootNetNS)

\* the number a sequence of decimal digits denotes, -1 when it is not one
RECURSIVE DigitsValue(_)
DigitsValue(ds) ==
    IF ds = <<>> THEN -1
    ELSE LET last == ds[Len(ds)]
             d == IF last \in Digits THEN CHOOSE n \in 0..9 : DigitChar(n) = last
                  ELSE -1
             front == SubSeq(ds, 1, Len(ds) - 1)
         IN  IF d < 0 THEN -1
             ELSE IF front = <<>> THEN d
             ELSE IF DigitsValue(front) <= 0 THEN -1
             ELSE 10 * DigitsValue(front) + d

\* s reads net[<ino>]:extRootNetNS, the inode in decimal without padding
IsNetReference(s, ino) ==
    LET head == <<"n", "e", "t", "[">>
        tail == <<"]", ":">> \o ExtRootNetNS
        n == Len(s)
    IN  /\ n > Len(head) + Len(tail)
        /\ SubSeq(s, 1, Len(head)) = head
        /\ SubSeq(s, n - Len(tail) + 1, n) = tail
        /\ DigitsValue(SubSeq(s, Len(head) + 1, n - Len(tail))) = ino

\* the call is past its namespace loop
PastNamespaces ==
    \/ pc \in {"c_dump", "r_restore"}
    \/ eng.dumps > 0
    \/ eng.restores > 0

\* C11: a call registers at most one network-namespace reference, and only
\* for the first namespace record, in declaration order, whose type resolves
\* to network and which has a path: on checkpoint the string
\* net[<inode of that path>]:extRootNetNS, on restore the descriptor open
\* returned for that path; a call past its namespace loop has registered
\* it, and none is registered when there is no such record.
C11_OneNetworkReference ==
    op # "none" =>
        /\ Len(NetworkReferences) <= 1
        /\ NetworkRecords = {} => NetworkReferences = <<>>
        /\ (PastNamespaces /\ NetworkRecords # {}) => Len(NetworkReferences) = 1
        /\ Len(NetworkReferences) = 1 =>
              /\ NetworkRecords # {}
              /\ LET ns == def.namespaces[FirstNetworkRecord]
                     ref == NetworkReferences[1]
                 IN  IF op = "checkpoint"
                     THEN IsNetReference(ref, ns.ino)
                     ELSE ref.path = ns.path /\ ref.fd = inherit_fd

\* a checkpoint that reached the dump with net[31]:extRootNetNS registered:
\* the second of three network records, the first having no path
C11_Witness ==
    /\ op = "checkpoint"
    /\ eng.dumps = 1
    /\ Len(def.namespaces) = 3
    /\ IsNull(def.namespaces[1].path)
    /\ FirstNetworkRecord = 2
    /\ eng.external = << <<"n", "e", "t", "[", "3", "1", "]", ":">> \o ExtRootNetNS >>

----------------------------------------------------------------------------
(* C12 *)

\* path d lies strictly under path t: d is t, a "/", and more
StrictlyUnder(d, t) ==
    /\ Len(d) > Len(t)
    /\ SubSeq(d, 1, Len(t) + 1) = t \o <<"/">>

\* the mount records prepare_restore_mounts leaves alone
SkippedMount(i) ==
    \/ def.mounts[i].type \in {"cgroup", "cgroup2"}
    \/ \E j \in 1..Len(def.mounts) :
          /\ def.mounts[j].type = "tmpfs"
          /\ StrictlyUnder(def.mounts[i].destination, def.mounts[j].destination)

\* prepare_restore_mounts has returned 0 in this call
PrepareSucceeded ==
    /\ op = "restore"
    /\ InTrace("prepare_restore_mounts")
    /\ \A k \in {"stat_source", "open_root", "create_mountpoint"} : ~MadeError(k)

----------------------------------------------------------------------------
(* C13 *)

\* every entry a of the trace comes before every entry b
Before(a, b) ==
    \A i \in {n \in 1..Len(trace) : trace[n] = a} :
        \A j \in {n \in 1..Len(trace) : trace[n] = b} : i < j

\* the bind mount of bundle/criu-root was made and succeeded in this call
BindMountSucceeded == InTrace("mount_root") /\ ~MadeError("mount_root")

MountRootAt == CHOOSE i \in 1..Len(trace) : trace[i] = "mount_root"

RegisteredBeforeMount ==
    Cardinality({i \in 1..MountRootAt : trace[i] = "criu_add_ext_mount"})

----------------------------------------------------------------------------
(* C14 *)

\* the system and engine calls of a checkpoint, in the order of the code
CheckpointOrder ==
    << "criu_init_opts", "mkdir_image", "open_image", "criu_set_images_dir_fd",
       "open_descriptors", "write_descriptors", "open_work", "criu_set_work_dir_fd",
       "criu_set_pid", "criu_set_root", "criu_add_ext_mount", "stat_netns",
       "criu_add_external", "criu_set_leave_running", "criu_set_ext_unix_sk",
       "criu_set_shell_job", "criu_set_tcp_established", "criu_set_log_level",
       "criu_set_log_file", "criu_dump" >>

Occurrences(e) == Cardinality({i \in 1..Len(trace) : trace[i] = e})

\* the place of a call in CheckpointOrder, 0 for a call that is not in it
CheckpointRank ==
    [e \in {CheckpointOrder[p] : p \in 1..Len(CheckpointOrder)} |->
        CHOOSE p \in 1..Len(CheckpointOrder) : CheckpointOrder[p] = e]

Rank(e) == IF e \in DOMAIN CheckpointRank THEN CheckpointRank[e] ELSE 0

\* the options the engine holds are those of the call
OptionsPropagated ==
    /\ eng.leave_running = opts.flags.leave_running
    /\ eng.ext_unix_sk = opts.flags.ext_unix_sk
    /\ eng.shell_job = opts.flags.shell_job
    /\ eng.tcp_established = opts.flags.tcp_established

\* C14: a checkpoint invokes criu_dump at most once, and only after engine
\* init, the binding of the image directory, the write of the ledger, the
\* target pid, the root binding, the externalization of mounts, masked
\* paths and network namespace and the propagation of the options, made in
\* that order with no step made twice; a step that fails ends the call with
\* its error, and no dump is made.
C14_DumpOnceAfterAllSteps ==
    op = "checkpoint" =>
        /\ eng.dumps <= 1
        /\ eng.dumps = Occurrences("criu_dump")
        /\ LET rank == [i \in 1..Len(trace) |-> Rank(trace[i])]
           IN  /\ \A i \in 1..Len(trace) : rank[i] > 0
               /\ \A i \in 1..(Len(trace) - 1) :
                     \/ rank[i] < rank[i + 1]
                     \/ trace[i] = "criu_add_ext_mount"
                        /\ trace[i + 1] = "criu_add_ext_mount"
        /\ eng.dumps = 1 =>
              /\ eng.init
              /\ eng.images_dir
              /\ InTrace("open_descriptors")
              /\ ~IsNull(status.external_descriptors) =>
                    /\ InTrace("write_descriptors")
                    /\ ~IsNull(fs.desc_file)
                    /\ LET data == Deref(status.external_descriptors)
                       IN  Len(Deref(fs.desc_file)) >= Len(data)
                           /\ SubSeq(Deref(fs.desc_file), 1, Len(data)) = data
              /\ eng.pid = status.pid
              /\ eng.root = Some("rootfs")
              /\ eng.ext_mounts = BindMountMappings(def.mounts, 1, FALSE)
                                  \o MaskedMappings(def.masked_paths, 1, FALSE, "masked")
              /\ NetworkRecords # {} => Len(eng.external) = 1
              /\ OptionsPropagated
              /\ errs \in {<<>>, <<"criu_dump">>}
        /\ errs # <<>> =>
              /\ pc = "done"
              /\ Len(errs) = 1
              /\ ret < 0
              /\ err # "criu_dump" => eng.dumps = 0

\* a checkpoint that wrote its ledger, registered two bind mounts, a masked
\* file and the network namespace, and returned 0 after one dump
C14_Witness ==
    /\ CheckpointReturned
    /\ ret = 0
    /\ eng.dumps = 1
    /\ InTrace("write_descriptors")
    /\ Len(eng.ext_mounts) = 3
    /\ Len(eng.external) = 1
    /\ trace[Len(trace)] = "criu_dump"

----------------------------------------------------------------------------
(* C15 *)

\* a call made without effective root
NonRootCall == op # "none" /\ opts.euid # 0

\* C15: a checkpoint or restore called without effective root returns an
\* error from its first step: no engine call and no system call is made,
\* the engine is not initialised and nothing is registered with it.
C15_PrivilegeCheckedFirst ==
    NonRootCall =>
        /\ pc \in {"c_euid", "r_euid", "done"}
        /\ trace = <<>>
        /\ eng = EngEmpty
        /\ inherit_fd = -1
        /\ pc = "done" => errs = <<"requires_root">> /\ ret < 0

\* a restore by a non-root caller that has returned its error
C15_Witness ==
    /\ RestoreReturned
    /\ opts.euid = 1000
    /\ err = "requires_root"
    /\ trace = <<>>

----------------------------------------------------------------------------
(* C16 *)

\* C16: when criu_dump or criu_restore_child is invoked, each of
\* leave_running, ext_unix_sk, shell_job and tcp_established has been set on
\* the engine, to the value the options of the call give it.
C16_BooleansSetBeforeEngineCall ==
    (eng.dumps > 0 \/ eng.restores > 0) =>
        /\ eng.leave_running \in {0, 1} /\ eng.leave_running = opts.flags.leave_running
        /\ eng.ext_unix_sk \in {0, 1} /\ eng.ext_unix_sk = opts.flags.ext_unix_sk
        /\ eng.shell_job \in {0, 1} /\ eng.shell_job = opts.flags.shell_job
        /\ eng.tcp_established \in {0, 1}
        /\ eng.tcp_established = opts.flags.tcp_established

----------------------------------------------------------------------------
(* C17 *)

\* the records prepare_restore_mounts does not skip, in table order
Processed ==
    SelectSeq([i \in 1..Len(def.mounts) |-> i], LAMBDA i : ~SkippedMount(i))

\* what record i is to be recreated as
WantKind(i) ==
    IF ~ListsBind(def.mounts[i]) \/ def.mounts[i].src_kind = "dir" THEN "dir" ELSE "file"

\* the source of record i has to be inspected and cannot be
SourceFails(i) == ListsBind(def.mounts[i]) /\ def.mounts[i].src_kind = "missing"

\* the calls prepare_restore_mounts makes for record i
CallsFor(i) ==
    (IF ListsBind(def.mounts[i]) THEN <<"crun_dir_p">> ELSE <<>>)
    \o <<"open_root", IF WantKind(i) = "dir" THEN "crun_safe_ensure_directory_at"
                      ELSE "crun_safe_ensure_file_at">>

RECURSIVE CallsUpTo(_)
CallsUpTo(k) == IF k = 0 THEN <<>> ELSE CallsUpTo(k - 1) \o CallsFor(Processed[k])

\* the calls prepare_restore_mounts made in this call of restore
PrepareLog ==
    SelectSeq(trace, LAMBDA e : e \in {"crun_dir_p", "open_root",
                                       "crun_safe_ensure_directory_at",
                                       "crun_safe_ensure_file_at"})

\* the destinations of the first k processed records, with their kinds
RecreatedUpTo(k) ==
    { [dest |-> def.mounts[Processed[j]].destination, kind |-> WantKind(Processed[j])] :
          j \in 1..k }

PrepareError == {"stat_source", "open_root", "create_mountpoint"}

\* C17: prepare_restore_mounts recreates the destination of a record it
\* does not skip as a directory when the record lists no bind or rbind or
\* its source is a directory, and as a file when it lists one and the
\* source is not a directory; when inspecting the source, opening the root
\* or creating the destination fails for a record, the records before it
\* have been recreated, no call is made for a later record, the error is
\* returned and restore does not invoke criu_restore_child.
C17_MountpointKindsAndAbort ==
    /\ \A c \in fs.created : \E i \in 1..Len(def.mounts) :
          def.mounts[i].destination = c.dest /\ c.kind = WantKind(i)
    /\ (op = "restore" /\ InTrace("prepare_restore_mounts")) =>
          \E k \in 0..Len(Processed) :
              /\ RecreatedUpTo(k) \subseteq fs.created
              /\ calls = 1 => fs.created = RecreatedUpTo(k)
              /\ IF errs = <<>> \/ errs[1] \notin PrepareError
                 THEN k = Len(Processed) /\ PrepareLog = CallsUpTo(k)
                 ELSE /\ k < Len(Processed)
                      /\ LET i == Processed[k + 1]
                             c == CallsFor(i)
                         IN  /\ PrepareLog = CallsUpTo(k) \o
                                   (CASE errs[1] = "stat_source" -> <<"crun_dir_p">>
                                      [] errs[1] = "open_root" -> SubSeq(c, 1, Len(c) - 1)
                                      [] OTHER -> c)
                             /\ errs[1] = "stat_source" <=> SourceFails(i)
                      /\ \A j \in 1..k : ~SourceFails(Processed[j])
                      /\ ret < 0
                      /\ eng.restores = 0
                      /\ ~InTrace("criu_restore_child")

\* a first restore of the table /a (rbind of a directory), /a/f (bind of a
\* file), /c (cgroup): /a was recreated as a directory, creating the file
\* /a/f failed, and the call returned that error with no engine restore
C17_Witness ==
    /\ RestoreReturned
    /\ calls = 1
    /\ errs[1] = "create_mountpoint"
    /\ fs.created = {[dest |-> PathA, kind |-> "dir"]}
    /\ PrepareLog = << "crun_dir_p", "open_root", "crun_safe_ensure_directory_at",
                       "crun_dir_p", "open_root", "crun_safe_ensure_file_at" >>
    /\ eng.restores = 0

----------------------------------------------------------------------------
(* C18 *)

\* C18: when restore returns an error, an error of the unmount or of the
\* removal after a successful criu_restore_child included, status.pid is
\* what it was when the call was made; when restore returns success,
\* status.pid is the positive pid criu_restore_child returned.
C18_PidChangedOnlyOnSuccess ==
    RestoreReturned =>
        IF ret < 0
        THEN status.pid = pid_at_call
        ELSE /\ ~IsNull(eng.restore_ret)
             /\ Deref(eng.restore_ret) > 0
             /\ status.pid = Deref(eng.restore_ret)

----------------------------------------------------------------------------
(* C19 *)

\* C19: in any sequence of restore calls, a call does not find
\* bundle/criu-root left behind by an earlier call: when its mkdir fails,
\* the directory is not there (read in the sense most favourable to the
\* code: as long as no umount or rmdir of the directory has itself failed).
C19_RestoreRetriable ==
    (RestoreReturned /\ errs = <<"mkdir_root">> /\ ~fs.cleanup_failed) => RootGone

----------------------------------------------------------------------------
(* C20 *)

\* the mkdir of bundle/criu-root was made and succeeded in this call
MkdirSucceeded == InTrace("mkdir_root") /\ ~MadeError("mkdir_root")

\* C20: a restore attempts the umount of bundle/criu-root only if its own
\* bind mount succeeded and the rmdir only if its own mkdir succeeded, each
\* at most once; a call that found the directory already there neither
\* mounts on it, unmounts it nor removes it.
C20_ReleasesOnlyWhatItAcquired ==
    op = "restore" =>
        /\ Occurrences("umount_root") <= 1
        /\ Occurrences("rmdir_root") <= 1
        /\ InTrace("umount_root") => BindMountSucceeded /\ MkdirSucceeded
        /\ InTrace("rmdir_root") => MkdirSucceeded
        /\ MadeError("mkdir_root") =>
              /\ ~InTrace("mount_root")
              /\ ~InTrace("umount_root")
              /\ ~InTrace("rmdir_root")
              /\ ret = crun_make_error(17) => fs.root_dir

\* a restore that found bundle/criu-root left mounted by an earlier call:
\* its mkdir failed and it returned without an umount or a rmdir
C20_Witness ==
    /\ RestoreReturned
    /\ calls > 1
    /\ errs = <<"mkdir_root">>
    /\ fs.root_dir
    /\ fs.root_mounted
    /\ ~InTrace("umount_root")
    /\ ~InTrace("rmdir_root")

====
